---- MODULE Spec2Model ----
(***************************************************************************)
(* A model of the stdpopsim command line front end (stdpopsim/cli.py) and  *)
(* of the Bos Taurus catalog entry (BosTau.py).                            *)
(*                                                                         *)
(* The stdpopsim library itself (Citation.merge, the species registry,     *)
(* DemographicModel.get_samples, Species.get_contig, PiecewiseConstantSize)*)
(* is called by these two files but is not part of them; those operators   *)
(* are written from the design document and are marked as such.            *)
(*                                                                         *)
(* Units.  Python floats are kept as scaled integers:                      *)
(*   - per-base rates in units of 1e-9 (1e-8 is 10);                       *)
(*   - the length multiplier and contig lengths in halves (0.5 is 1, 1 is  *)
(*     2, 2 is 4; a contig of L base pairs has length 2*L half-bases), so  *)
(*     that length * 0.5 is exact for odd lengths as it is in a double.    *)
(***************************************************************************)
EXTENDS Integers, Sequences, FiniteSets, TLC

VARIABLES
    species,        \* the species the run_simulation closure is bound to
    args,           \* the parsed argparse namespace
    pc,             \* position inside run_simulation
    model,          \* local `model`
    qc_complete,    \* local `qc_complete`
    samples,        \* local `samples`
    contig,         \* local `contig`
    engine,         \* local `engine`
    ts,             \* local `ts`, the engine's result
    log,            \* the calls made so far, in order
    summary,        \* what write_simulation_summary logged
    cite_out,       \* the citations of the "please cite" request
    bib_out,        \* the citations written to the bibtex file
    exit_msg,       \* the message of exit(), or of the exception raised
    registered_species, \* the species registry, in registration order
    last_call,      \* the last call to the registry and what it returned
    reg_attempts,   \* every species handed to register_species so far
    subparsers,     \* the subcommands stdpopsim_cli_parser has added
    arg_list,       \* what the command line gave for the optional arguments
    model_args,     \* the arguments a catalog module passes to DemographicModel
    built,          \* what that call returned or raised
    species_names,  \* run_download_genetic_maps: the species still to visit
    genetic_maps,   \* run_download_genetic_maps: the maps still to download
    downloads,      \* every genetic_map.download() made so far, in order
    cache           \* the genetic maps in the cache directory

reg_vars == <<registered_species, last_call, reg_attempts, subparsers>>

build_vars == <<model_args, built>>

dl_vars == <<species_names, genetic_maps, downloads, cache>>

\* What run_simulation neither reads nor writes.
other_vars == <<reg_vars, arg_list, build_vars, dl_vars>>

vars == <<species, args, pc, model, qc_complete, samples, contig, engine, ts,
          log, summary, cite_out, bib_out, exit_msg, reg_vars, arg_list,
          build_vars, dl_vars>>

---------------------------------------------------------------------------
(* Bounds of the model.                                                    *)

\* Populations of a named model of the generic catalog species.
MaxPops == 2
\* Sample-count arguments on the command line (nargs="+": at least one).
MaxArgs == 2
\* Largest single sample count.
MaxCount == 2
\* Citations an engine or a model brings to get_citations.
MaxCites == 2
\* Calls of register_species.
MaxRegs == 3
\* Demographic events of a model a catalog module other than BosTau builds.
MaxEvents == 2
\* Genetic maps a species owns.
MaxMaps == 2
\* Genetic-map ids on the command line of download-genetic-maps (nargs="*").
MaxMapArgs == 2

---------------------------------------------------------------------------
(* Python values.                                                          *)

None == "None"
\* None where the other values are records.
NoneRec == [id |-> None]
IsNone(r) == r.id = None

RECURSIVE Repeat(_, _)
\* [x] * n
Repeat(x, n) == IF n <= 0 THEN <<>> ELSE <<x>> \o Repeat(x, n - 1)

RECURSIVE SumSeq(_)
\* sum(s)
SumSeq(s) == IF s = <<>> THEN 0 ELSE Head(s) + SumSeq(Tail(s))

\* All sequences over S of length lo..hi.
SeqsOf(S, lo, hi) == UNION {[1..n -> S] : n \in lo..hi}

Range(s) == {s[i] : i \in 1..Len(s)}

---------------------------------------------------------------------------
(* Citations.                                                              *)

Citation(doi, author, reasons) ==
    [doi |-> doi, author |-> author, reasons |-> reasons]

_stdpopsim_citation == Citation("doi:stdpopsim", "Adrion et al.", {"ENGINE"})

_assembly_citation ==
    Citation("https://doi.org/10.1093/gigascience/giaa021", "Rosen et al.",
             {"ASSEMBLY"})

_gen_time_citation ==
    Citation("https://doi.org/10.1093/molbev/mst125", "MacLeod et al.",
             {"GEN_TIME"})

_pop_size_citation ==
    Citation("https://doi.org/10.1093/molbev/mst125", "MacLeod et al.",
             {"POP_SIZE"})

_dem_model_citation ==
    Citation("https://doi.org/10.1093/molbev/mst125", "MacLeod et al.",
             {"DEM_MODEL"})

---------------------------------------------------------------------------
(* The Bos Taurus catalog entry (BosTau.py).                               *)

Chromosome(id, length, mutation_rate, recombination_rate) ==
    [id |-> id, length |-> length, mutation_rate |-> mutation_rate,
     recombination_rate |-> recombination_rate]

\* The chromosome table: name, length in base pairs.
_chromosome_data ==
    << <<"chr1", 158534110>>, <<"chr2", 136231102>>, <<"chr3", 121005158>>,
       <<"chr4", 120000601>>, <<"chr5", 120089316>>, <<"chr6", 117806340>>,
       <<"chr7", 110682743>>, <<"chr8", 113319770>>, <<"chr9", 105454467>>,
       <<"chr10", 103308737>>, <<"chr11", 106982474>>, <<"chr12", 87216183>>,
       <<"chr13", 83472345>>, <<"chr14", 82403003>>, <<"chr15", 85007780>>,
       <<"chr16", 81013979>>, <<"chr17", 73167244>>, <<"chr18", 65820629>>,
       <<"chr19", 63449741>>, <<"chr20", 71974595>>, <<"chr21", 69862954>>,
       <<"chr22", 60773035>>, <<"chr23", 52498615>>, <<"chr24", 62317253>>,
       <<"chr25", 42350435>>, <<"chr26", 51992305>>, <<"chr27", 45612108>>,
       <<"chr28", 45940150>>, <<"chr29", 51098607>>, <<"chrX", 139009144>> >>

\* The loop over the table stopping one line short.
_chromosomes_without_last ==
    [i \in 1..(Len(_chromosome_data) - 1) |->
        Chromosome(_chromosome_data[i][1], _chromosome_data[i][2], 10, 10)]

\* One Chromosome per line of the table, mutation and recombination rate 1e-8.
_chromosomes ==
    [i \in 1..Len(_chromosome_data) |->
        Chromosome(_chromosome_data[i][1], _chromosome_data[i][2], 10, 10)]

_genome ==
    [chromosomes |-> _chromosomes,
     assembly_citations |-> <<_assembly_citation>>,
     mutation_rate_citations |-> <<>>,
     recombination_rate_citations |-> <<>>]

\* stdpopsim.Population(id, description): sampling_time defaults to 0 and the
\* population allows samples.
Population(id) == [id |-> id, allow_samples |-> TRUE, sampling_time |-> 0]

\* msprime.PopulationParametersChange(time, initial_size, growth_rate,
\* population_id); the growth rate in units of 1e-9, initial_size -1 when the
\* event does not set it.
PopulationParametersChange(time, initial_size, growth_rate, population_id) ==
    [time |-> time, initial_size |-> initial_size,
     growth_rate |-> growth_rate, population_id |-> population_id]

\* The model with a second population.
populations_two == << Population("FILL ME"), Population("FILL ME TOO") >>

\* The populations of the IonaInferredDemography model.
populations == << Population("FILL ME") >>

\* The IonaInferredDemography model.
_inferred_1_M_13 ==
    [id |-> "IonaInferredDemography",
     populations |-> populations,
     citations |-> << _dem_model_citation >>,
     generation_time |-> 5,
     population_configurations |->
        << [initial_size |-> 90, growth_rate |-> 16600000] >>,
     demographic_events |->
        << PopulationParametersChange(1, 90, -95894024, 0),
           PopulationParametersChange(4, -1, -244656390, 0),
           PopulationParametersChange(7, -1, -56078700, 0),
           PopulationParametersChange(13, -1, -174970400, 0),
           PopulationParametersChange(19, -1, -67577500, 0),
           PopulationParametersChange(25, -1, -2212900, 0),
           PopulationParametersChange(155, -1, -743800, 0),
           PopulationParametersChange(455, -1, -1682400, 0),
           PopulationParametersChange(655, -1, -630100, 0),
           PopulationParametersChange(1755, -1, -594500, 0),
           PopulationParametersChange(2355, -1, -530600, 0),
           PopulationParametersChange(3355, -1, -43400, 0),
           PopulationParametersChange(33155, -1, 0, 0),
           PopulationParametersChange(933155, -1, 0, 0) >>,
     qc_model |-> None]

\* The BosTau species, after BosTau.py has added its demographic model.
_species ==
    [id |-> "BosTau",
     name |-> "Bos Taurus",
     genome |-> _genome,
     generation_time |-> 5,
     generation_time_citations |-> <<_gen_time_citation>>,
     population_size |-> 62000,
     population_size_citations |-> <<_pop_size_citation>>,
     demographic_models |-> << _inferred_1_M_13 >>,
     genetic_maps |-> <<>>]

---------------------------------------------------------------------------
(* Other catalog entries: a species with one chromosome and one named      *)
(* model whose populations, and QC status, are drawn from bounded sets.    *)

PopIds == <<"pop_0", "pop_1", "pop_2", "pop_3">>

GenericPopulations ==
    UNION {
      { [i \in 1..n |-> [id |-> PopIds[i],
                         allow_samples |-> f[i][1],
                         sampling_time |-> f[i][2]]] :
        f \in [1..n -> BOOLEAN \X {0, 1}] } :
      n \in 1..MaxPops }

GenericModel(pops, qc) ==
    [id |-> "GenericModel",
     populations |-> pops,
     citations |-> << Citation("doi:model", "Model et al.", {"DEM_MODEL"}) >>,
     generation_time |-> 25,
     population_configurations |->
        [i \in 1..Len(pops) |-> [initial_size |-> 1000, growth_rate |-> 0]],
     demographic_events |-> <<>>,
     qc_model |-> qc]

GenericModels ==
    { GenericModel(pops, qc) : pops \in GenericPopulations,
                               qc \in {None, "qc"} }

GenericSpecies(m) ==
    [id |-> "GenSpe",
     name |-> "Generic species",
     genome |->
        [chromosomes |-> << Chromosome("chrA", 1001, 20, 30) >>,
         assembly_citations |->
            << Citation("doi:assembly", "Asm et al.", {"ASSEMBLY"}) >>,
         mutation_rate_citations |->
            << Citation("doi:rates", "Rate et al.", {"MUT_RATE"}) >>,
         recombination_rate_citations |->
            << Citation("doi:rates", "Rate et al.", {"REC_RATE"}) >>],
     generation_time |-> 25,
     generation_time_citations |->
        << Citation("doi:gen", "Gen et al.", {"GEN_TIME"}) >>,
     population_size |-> 1000,
     population_size_citations |->
        << Citation("doi:size", "Size et al.", {"POP_SIZE"}) >>,
     demographic_models |-> << m >>,
     genetic_maps |-> <<>>]

GenericCatalog == { GenericSpecies(m) : m \in GenericModels }

---------------------------------------------------------------------------
(* The stdpopsim library, as the design document describes it.             *)

RECURSIVE merge_from(_, _)
\* Citation.merge, one input at a time: a citation whose doi is already in
\* the result adds its reasons to that entry, any other is appended.
merge_from(acc, rest) ==
    IF rest = <<>> THEN acc
    ELSE LET c == Head(rest)
             hit == {i \in 1..Len(acc) : c.doi # None /\ acc[i].doi = c.doi}
         IN  IF hit = {}
             THEN merge_from(Append(acc, c), Tail(rest))
             ELSE LET i == CHOOSE j \in hit : TRUE
                  IN  merge_from(
                        [acc EXCEPT ![i].reasons = acc[i].reasons \cup c.reasons],
                        Tail(rest))

merge(citations) == merge_from(<<>>, citations)

\* The indices (1-based) of the populations that allow samples.
sampling_populations(m) ==
    {i \in 1..Len(m.populations) : m.populations[i].allow_samples}

\* DemographicModel.num_sampling_populations
num_sampling_populations(m) == Cardinality(sampling_populations(m))

\* The k-th (1-based) population that allows samples, in model order.
nth_sampling_population(m, k) ==
    CHOOSE i \in sampling_populations(m) :
        Cardinality({j \in sampling_populations(m) : j < i}) = k - 1

RECURSIVE samples_from(_, _, _)
samples_from(m, counts, k) ==
    IF k > Len(counts) THEN <<>>
    ELSE Repeat([population |-> k - 1,
                 time |-> m.populations[nth_sampling_population(m, k)]
                            .sampling_time],
                counts[k])
         \o samples_from(m, counts, k + 1)

\* DemographicModel.get_samples(*counts)
get_samples(m, counts) ==
    IF Len(counts) > num_sampling_populations(m)
    THEN [error |-> "TooManySamplePopulationsError", value |-> <<>>]
    ELSE [error |-> None, value |-> samples_from(m, counts, 1)]

\* stdpopsim.PiecewiseConstantSize(N0): one population of constant size.
PiecewiseConstantSize(N0) ==
    [id |-> "PiecewiseConstant",
     populations |-> << Population("pop_0") >>,
     citations |-> <<>>,
     generation_time |-> -1,
     population_configurations |->
        << [initial_size |-> N0, growth_rate |-> 0] >>,
     demographic_events |-> <<>>,
     qc_model |-> None]

\* The population indices (0-based) the arguments of DemographicModel refer
\* to: the i-th initial configuration is that of population i, an event
\* names its population.
referenced_populations(a) ==
    {i - 1 : i \in 1..Len(a.population_configurations)}
    \cup {a.demographic_events[i].population_id :
            i \in 1..Len(a.demographic_events)}

\* DemographicModel(...) keeping every model it is given.
DemographicModel_unvalidated(a, migration_matrix) ==
    [error |-> None, value |-> a]

\* stdpopsim.DemographicModel(id, populations, citations, generation_time,
\* population_configurations, demographic_events, migration_matrix): the
\* validation at construction, in the order the design document lists it.
\* No migration matrix (None) is the empty sequence.  The event times of
\* every call modelled are non-negative.
DemographicModel(a, migration_matrix) ==
    IF \E idx \in referenced_populations(a) :
            ~(0 <= idx /\ idx < Len(a.populations))
    THEN [error |-> "InvalidPopulationIndexError", value |-> NoneRec]
    ELSE IF /\ migration_matrix # <<>>
            /\ \/ Len(migration_matrix) # Len(a.populations)
               \/ \E i \in 1..Len(migration_matrix) :
                      Len(migration_matrix[i]) # Len(a.populations)
    THEN [error |-> "MigrationMatrixShapeError", value |-> NoneRec]
    ELSE [error |-> None, value |-> a]

\* Species.add_demographic_model(model): append-only.
add_demographic_model(sp, m) ==
    [sp EXCEPT !.demographic_models = Append(@, m)]

\* Species.get_demographic_model(id)
get_demographic_model(sp, id) ==
    LET hit == {i \in 1..Len(sp.demographic_models) :
                    sp.demographic_models[i].id = id}
    IN  IF hit = {}
        THEN [error |-> "UnknownModelError", value |-> NoneRec]
        ELSE [error |-> None,
              value |-> sp.demographic_models[CHOOSE i \in hit : TRUE]]

\* Species.get_contig(chromosome, genetic_map, length_multiplier) without a
\* genetic map: the chromosome's uniform rates over length * multiplier.
get_contig(sp, chromosome, genetic_map, length_multiplier) ==
    LET chroms == sp.genome.chromosomes
        hit == IF chromosome = None
               THEN (IF Len(chroms) = 1 THEN {1} ELSE {})
               ELSE {i \in 1..Len(chroms) : chroms[i].id = chromosome}
    IN  IF hit = {}
        THEN [error |-> "ValueError", value |-> NoneRec]
        ELSE LET c == chroms[CHOOSE i \in hit : TRUE]
             IN  [error |-> None,
                  value |->
                    [id |-> c.id,
                     recombination_map |->
                        [length |-> c.length * length_multiplier,
                         mean_recombination_rate |-> c.recombination_rate],
                     mutation_rate |-> c.mutation_rate,
                     genetic_map |-> NoneRec]]

\* stdpopsim.GeneticMap(species, id, ...)
GeneticMap(id) ==
    [id |-> id,
     citations |-> << Citation("doi:" \o id, "Map et al.", {"GEN_MAP"}) >>]

\* Species.get_genetic_map(id)
get_genetic_map(sp, id) ==
    LET hit == {i \in 1..Len(sp.genetic_maps) : sp.genetic_maps[i].id = id}
    IN  IF hit = {}
        THEN [error |-> "UnknownGeneticMapError", value |-> NoneRec]
        ELSE [error |-> None,
              value |-> sp.genetic_maps[CHOOSE i \in hit : TRUE]]

\* stdpopsim.get_engine(id)
get_engine(id) ==
    [id |-> id, version |-> "v",
     citations |-> << Citation("doi:" \o id, id, {"ENGINE"}) >>]

---------------------------------------------------------------------------
(* The species registry, as the design document describes it.  The         *)
(* registry keeps, per species, what tells two registrations apart (the id *)
(* and the name) and the genetic maps the species owns.                    *)

SpeciesEntry(sp) ==
    [id |-> sp.id, name |-> sp.name, genetic_maps |-> sp.genetic_maps]

NoCall == [op |-> None, arg |-> NoneRec, error |-> None, result |-> <<>>]

\* stdpopsim.register_species(species)
register_species(reg, sp) ==
    IF \E i \in 1..Len(reg) : reg[i].id = sp.id
    THEN [error |-> "DuplicateIdError", registry |-> reg]
    ELSE [error |-> None, registry |-> Append(reg, sp)]

\* stdpopsim.get_species(id)
get_species(reg, id) ==
    LET hit == {i \in 1..Len(reg) : reg[i].id = id}
    IN  IF hit = {}
        THEN [error |-> "UnknownSpeciesError", result |-> <<>>]
        ELSE [error |-> None, result |-> << reg[CHOOSE i \in hit : TRUE] >>]

\* stdpopsim.all_species()
all_species(reg) == reg

---------------------------------------------------------------------------
(* cli.py: the species parser.                                             *)

\* type=float of --length-multiplier, in halves.
ParseFloat(token) ==
    CASE token = "0.5" -> 1
      [] token = "1"   -> 2
      [] token = "2"   -> 4

LengthMultiplierTokens == {"0.5", "1", "2"}

\* The values argparse accepts for -c/--chromosome: the option exists only
\* for a genome of more than one chromosome; otherwise the default None stays.
ChromosomeChoices(sp) ==
    IF Len(sp.genome.chromosomes) > 1
    THEN {sp.genome.chromosomes[i].id : i \in 1..Len(sp.genome.chromosomes)}
    ELSE {None}

\* default=choices[0], or set_defaults(chromosome=None)
ChromosomeDefault(sp) ==
    IF Len(sp.genome.chromosomes) > 1
    THEN sp.genome.chromosomes[1].id
    ELSE None

\* The command lines for the species' subcommand, as far as -c/--chromosome
\* goes: absent (None), or one of the choices where the option exists.
ArgLists(sp) == { [chromosome |-> c] : c \in {None} \cup ChromosomeChoices(sp) }

\* args.chromosome as argparse leaves it: the value given, else the default.
parse_chromosome(sp, argv) ==
    IF argv.chromosome = None THEN ChromosomeDefault(sp) ELSE argv.chromosome

\* The values argparse accepts for -d/--demographic-model, and its default.
ModelChoices(sp) ==
    {None} \cup
    {sp.demographic_models[i].id : i \in 1..Len(sp.demographic_models)}

\* The namespaces parse_args can return for the species' subcommand.
ParsedArgs(sp, sampleArgs, chromosomes, multipliers) ==
    [demographic_model : ModelChoices(sp),
     samples : sampleArgs,
     chromosome : chromosomes,
     genetic_map : {None},
     length_multiplier : multipliers,
     dry_run : BOOLEAN,
     bibtex_file : {None, "bibtex_file"},
     engine : {"msprime"},
     seed : {None}]

---------------------------------------------------------------------------
(* cli.py: citations and the simulation summary.                           *)

\* get_citations returning the list it built, not merged.
get_citations_unmerged(eng, m, ctg, sp) ==
    <<_stdpopsim_citation>>
    \o eng.citations
    \o sp.genome.assembly_citations
    \o sp.genome.mutation_rate_citations
    \o sp.genome.recombination_rate_citations
    \o (IF IsNone(ctg.genetic_map) THEN <<>>
        ELSE ctg.genetic_map.citations)
    \o m.citations

get_citations(eng, m, ctg, sp) ==
    merge(<<_stdpopsim_citation>>
          \o eng.citations
          \o sp.genome.assembly_citations
          \o sp.genome.mutation_rate_citations
          \o sp.genome.recombination_rate_citations
          \o (IF IsNone(ctg.genetic_map) THEN <<>>
              ELSE ctg.genetic_map.citations)
          \o m.citations)

\* The rows of "Population: number_samples (sampling_time_generations)".
summary_rows(m, smpls) ==
    [p \in 1..num_sampling_populations(m) |->
        [pop_name |-> m.populations[p].id,
         count |-> Cardinality({i \in 1..Len(smpls) :
                                    smpls[i].population = p - 1}),
         sample_time |-> m.populations[p].sampling_time]]

write_simulation_summary(eng, m, ctg, smpls, seed) ==
    [id |-> "summary",
     engine |-> eng.id,
     model_id |-> m.id,
     seed |-> seed,
     rows |-> summary_rows(m, smpls),
     contig_len |-> ctg.recombination_map.length,
     mean_recomb_rate |-> ctg.recombination_map.mean_recombination_rate,
     mut_rate |-> ctg.mutation_rate,
     gmap |-> ctg.genetic_map.id]

---------------------------------------------------------------------------
(* cli.py: run_simulation, one action per step.                            *)

NoError == [error |-> None, text |-> "", n |-> 0]

\* No call of DemographicModel has been made.
NoBuild == [error |-> None, value |-> NoneRec]

\* select_model without `model.generation_time = species.generation_time`.
select_model_keeps_generation_time(sp, a) ==
    IF a.demographic_model = None
    THEN [error |-> None,
          model |-> [PiecewiseConstantSize(sp.population_size) EXCEPT
                        !.citations = @ \o sp.population_size_citations
                                        \o sp.generation_time_citations],
          qc_complete |-> TRUE]
    ELSE LET r == get_demographic_model(sp, a.demographic_model)
         IN  [error |-> r.error,
              model |-> r.value,
              qc_complete |-> r.value.qc_model # None]

\* The model and its QC status: the constant-size default, or the named one.
select_model(sp, a) ==
    IF a.demographic_model = None
    THEN [error |-> None,
          model |-> [PiecewiseConstantSize(sp.population_size) EXCEPT
                        !.generation_time = sp.generation_time,
                        !.citations = @ \o sp.population_size_citations
                                        \o sp.generation_time_citations],
          qc_complete |-> TRUE]
    ELSE LET r == get_demographic_model(sp, a.demographic_model)
         IN  [error |-> r.error,
              model |-> r.value,
              qc_complete |-> r.value.qc_model # None]

\* The check against all populations, sampling or not.
too_many_samples_all_pops(a, m) == Len(a.samples) > Len(m.populations)

\* The check with >= for >.
too_many_samples_geq(a, m) == Len(a.samples) >= num_sampling_populations(m)

\* len(args.samples) > model.num_sampling_populations
too_many_samples(a, m) == Len(a.samples) > num_sampling_populations(m)

\* get_contig called without length_multiplier, which then is 1.
resolve_contig_no_multiplier(sp, a) ==
    get_contig(sp, a.chromosome, a.genetic_map, ParseFloat("1"))

\* species.get_contig(args.chromosome, genetic_map, length_multiplier)
resolve_contig(sp, a) ==
    get_contig(sp, a.chromosome, a.genetic_map, a.length_multiplier)

\* engine.simulate(**kwargs) returning: nothing on a dry run.
simulate_result(a) == IF a.dry_run THEN None ELSE "ts"

\* The warning without its condition.
warn_always(qc) == TRUE

\* if not qc_complete
warn_not_qced(qc) == ~qc

\* write_output without its condition.
output_always_written(t) == TRUE

\* if ts is not None
output_is_written(t) == t # None

\* The citation request without its condition.
citations_always_requested(qc) == TRUE

\* if qc_complete
citations_are_requested(qc) == qc

\* if args.bibtex_file is not None
bibtex_is_written(a) == a.bibtex_file # None

SelectModel ==
    /\ pc = "select_model"
    /\ LET r == select_model(species, args)
       IN  IF r.error # None
           THEN /\ pc' = "exited"
                /\ exit_msg' = [error |-> "SystemExit", text |-> r.error, n |-> 0]
                /\ UNCHANGED <<model, qc_complete>>
           ELSE /\ pc' = "check_samples"
                /\ model' = r.model
                /\ qc_complete' = r.qc_complete
                /\ UNCHANGED exit_msg
    /\ UNCHANGED <<other_vars, species, args, samples, contig, engine, ts, log, summary,
                   cite_out, bib_out>>

CheckSamples ==
    /\ pc = "check_samples"
    /\ IF too_many_samples(args, model)
       THEN /\ pc' = "exited"
            /\ exit_msg' = [error |-> "SystemExit",
                            text |-> "Cannot sample from more than n populations",
                            n |-> num_sampling_populations(model)]
            /\ UNCHANGED <<samples, log>>
       ELSE LET r == get_samples(model, args.samples)
            IN  IF r.error # None
                THEN /\ pc' = "raised"
                     /\ exit_msg' = [error |-> r.error, text |-> "", n |-> 0]
                     /\ UNCHANGED <<samples, log>>
                ELSE /\ pc' = "get_contig"
                     /\ samples' = r.value
                     /\ log' = Append(log, "get_samples")
                     /\ UNCHANGED exit_msg
    /\ UNCHANGED <<other_vars, species, args, model, qc_complete, contig, engine, ts,
                   summary, cite_out, bib_out>>

ResolveContig ==
    /\ pc = "get_contig"
    /\ LET r == resolve_contig(species, args)
       IN  IF r.error # None
           THEN /\ pc' = "raised"
                /\ exit_msg' = [error |-> r.error, text |-> "", n |-> 0]
                /\ UNCHANGED <<contig, log>>
           ELSE /\ pc' = "get_engine"
                /\ contig' = r.value
                /\ log' = Append(log, "get_contig")
                /\ UNCHANGED exit_msg
    /\ UNCHANGED <<other_vars, species, args, model, qc_complete, samples, engine, ts,
                   summary, cite_out, bib_out>>

SelectEngine ==
    /\ pc = "get_engine"
    /\ engine' = get_engine(args.engine)
    /\ log' = Append(log, "get_engine")
    /\ pc' = "summary"
    /\ UNCHANGED <<other_vars, species, args, model, qc_complete, samples, contig, ts,
                   summary, cite_out, bib_out, exit_msg>>

WriteSummary ==
    /\ pc = "summary"
    /\ summary' = write_simulation_summary(engine, model, contig, samples,
                                           args.seed)
    /\ log' = Append(log, "write_simulation_summary")
    /\ pc' = "warn"
    /\ UNCHANGED <<other_vars, species, args, model, qc_complete, samples, contig, engine,
                   ts, cite_out, bib_out, exit_msg>>

Warn ==
    /\ pc = "warn"
    /\ log' = IF warn_not_qced(qc_complete) THEN Append(log, "warn") ELSE log
    /\ pc' = "simulate"
    /\ UNCHANGED <<other_vars, species, args, model, qc_complete, samples, contig, engine,
                   ts, summary, cite_out, bib_out, exit_msg>>

\* engine.simulate(**kwargs) returning.  kwargs is vars(args) with
\* demographic_model, contig and samples replaced by the locals; what is
\* read of args afterwards (bibtex_file) is not among the replaced keys.
SimulateReturns ==
    /\ pc = "simulate"
    /\ ts' = simulate_result(args)
    /\ log' = Append(log, "simulate")
    /\ pc' = "write_output"
    /\ UNCHANGED <<other_vars, species, args, model, qc_complete, samples, contig, engine,
                   summary, cite_out, bib_out, exit_msg>>

\* engine.simulate raising and run_simulation going on without a result.
SimulateRaisesSuppressed ==
    /\ pc = "simulate"
    /\ log' = Append(log, "simulate")
    /\ pc' = "write_output"
    /\ exit_msg' = [error |-> "EngineError", text |-> "", n |-> 0]
    /\ UNCHANGED <<other_vars, species, args, model, qc_complete, samples,
                   contig, engine, ts, summary, cite_out, bib_out>>

\* engine.simulate raising: the exception leaves run_simulation.
SimulateRaises ==
    /\ pc = "simulate"
    /\ log' = Append(log, "simulate")
    /\ pc' = "raised"
    /\ exit_msg' = [error |-> "EngineError", text |-> "", n |-> 0]
    /\ UNCHANGED <<other_vars, species, args, model, qc_complete, samples, contig, engine,
                   ts, summary, cite_out, bib_out>>

WriteOutput ==
    /\ pc = "write_output"
    /\ log' = IF output_is_written(ts) THEN Append(log, "write_output") ELSE log
    /\ pc' = "citations"
    /\ UNCHANGED <<other_vars, species, args, model, qc_complete, samples, contig, engine,
                   ts, summary, cite_out, bib_out, exit_msg>>

WriteCitations ==
    /\ pc = "citations"
    /\ IF citations_are_requested(qc_complete)
       THEN /\ cite_out' = get_citations(engine, model, contig, species)
            /\ log' = Append(log, "write_citations")
       ELSE UNCHANGED <<cite_out, log>>
    /\ pc' = "bibtex"
    /\ UNCHANGED <<other_vars, species, args, model, qc_complete, samples, contig, engine,
                   ts, summary, bib_out, exit_msg>>

\* write_bibtex writes every citation's entry and closes the file.
WriteBibtex ==
    /\ pc = "bibtex"
    /\ IF bibtex_is_written(args)
       THEN /\ bib_out' = get_citations(engine, model, contig, species)
            /\ log' = log \o <<"write_bibtex", "bibtex_file.close">>
       ELSE UNCHANGED <<bib_out, log>>
    /\ pc' = "done"
    /\ UNCHANGED <<other_vars, species, args, model, qc_complete, samples, contig, engine,
                   ts, summary, cite_out, exit_msg>>

Next ==
    \/ SelectModel
    \/ CheckSamples
    \/ ResolveContig
    \/ SelectEngine
    \/ WriteSummary
    \/ Warn
    \/ SimulateReturns
    \/ SimulateRaises
    \/ WriteOutput
    \/ WriteCitations
    \/ WriteBibtex

\* The sample-count arguments: at least one (nargs="+").
SampleArgs == SeqsOf(0..MaxCount, 1, MaxArgs)

\* The locals of run_simulation before its first statement.
InitLocals ==
    /\ pc = "select_model"
    /\ model = NoneRec
    /\ qc_complete = FALSE
    /\ samples = <<>>
    /\ contig = NoneRec
    /\ engine = NoneRec
    /\ ts = None
    /\ log = <<>>
    /\ summary = NoneRec
    /\ cite_out = <<>>
    /\ bib_out = <<>>
    /\ exit_msg = NoError

\* The registry once the catalog is loaded; no registry call is in progress.
InitCatalogLoaded ==
    /\ registered_species = << SpeciesEntry(species) >>
    /\ last_call = NoCall
    /\ reg_attempts = << SpeciesEntry(species) >>
    /\ subparsers = << species.id, "download-genetic-maps" >>

\* No catalog module is being loaded.
InitNoBuild ==
    /\ model_args = NoneRec
    /\ built = NoBuild

\* run_download_genetic_maps is not running.
InitNoDownload ==
    /\ species_names = <<>>
    /\ genetic_maps = <<>>
    /\ downloads = <<>>
    /\ cache = {}

\* An invocation for a catalog species with any named model, with the
\* parser's defaults for the contig.
Init ==
    /\ species \in GenericCatalog
    /\ arg_list \in ArgLists(species)
    /\ args \in ParsedArgs(species, SampleArgs,
                           {parse_chromosome(species, arg_list)},
                           {ParseFloat("1")})
    /\ InitLocals
    /\ InitCatalogLoaded
    /\ InitNoBuild
    /\ InitNoDownload

Spec == Init /\ [][Next]_vars

\* An invocation for BosTau: any chromosome, any of the three multipliers.
InitBosTau ==
    /\ species = _species
    /\ arg_list \in ArgLists(species)
    /\ args \in ParsedArgs(species, {<<10>>, <<1, 1>>},
                           {parse_chromosome(species, arg_list)},
                           {ParseFloat(t) : t \in LengthMultiplierTokens})
    /\ InitLocals
    /\ InitCatalogLoaded
    /\ InitNoBuild
    /\ InitNoDownload

SpecBosTau == InitBosTau /\ [][Next]_vars

---------------------------------------------------------------------------
(* A catalog module being loaded and then used: the module builds its      *)
(* demographic model and adds it to its species (BosTau.py 114-187), the   *)
(* parser reads a command line for that species, run_simulation runs.      *)

\* The arguments other catalog modules pass to DemographicModel: one to
\* MaxPops populations, any number of initial configurations up to one too
\* many, events that name any population index up to one too many.
GenericModelArgs ==
    { [GenericModel([i \in 1..n |-> Population(PopIds[i])], None) EXCEPT
          !.population_configurations =
              [i \in 1..k |-> [initial_size |-> 1000, growth_rate |-> 0]],
          !.demographic_events =
              [i \in 1..Len(e) |-> PopulationParametersChange(i, -1, 0, e[i])]] :
        n \in 1..MaxPops, k \in 1..(MaxPops + 1),
        e \in SeqsOf(0..MaxPops, 0, MaxEvents) }

\* No migration matrix, or a square one of zeros.
MigrationMatrices ==
    {<<>>} \cup {[i \in 1..d |-> [j \in 1..d |-> 0]] : d \in 1..MaxPops}

\* The catalog modules: BosTau.py, whose call gives no migration matrix, and
\* the others.
CatalogModules ==
    { [species |-> [_species EXCEPT !.demographic_models = <<>>],
       fields |-> _inferred_1_M_13,
       migration_matrix |-> <<>>] }
    \cup
    { [species |-> [GenericSpecies(a) EXCEPT !.demographic_models = <<>>],
       fields |-> a,
       migration_matrix |-> mm] :
        a \in GenericModelArgs, mm \in MigrationMatrices }

InitBuild ==
    /\ \E mod \in CatalogModules :
          /\ species = mod.species
          /\ model_args = [fields |-> mod.fields,
                           migration_matrix |-> mod.migration_matrix]
    /\ built = NoBuild
    /\ arg_list = NoneRec
    /\ args = NoneRec
    /\ pc = "construct_model"
    /\ model = NoneRec
    /\ qc_complete = FALSE
    /\ samples = <<>>
    /\ contig = NoneRec
    /\ engine = NoneRec
    /\ ts = None
    /\ log = <<>>
    /\ summary = NoneRec
    /\ cite_out = <<>>
    /\ bib_out = <<>>
    /\ exit_msg = NoError
    /\ InitCatalogLoaded
    /\ InitNoDownload

\* return stdpopsim.DemographicModel(...): an exception leaves the module.
ConstructModel ==
    /\ pc = "construct_model"
    /\ LET r == DemographicModel(model_args.fields,
                                 model_args.migration_matrix)
       IN  /\ built' = r
           /\ IF r.error # None
              THEN /\ pc' = "raised"
                   /\ exit_msg' = [error |-> r.error, text |-> "", n |-> 0]
              ELSE /\ pc' = "add_model"
                   /\ UNCHANGED exit_msg
    /\ UNCHANGED <<species, args, model, qc_complete, samples, contig, engine,
                   ts, log, summary, cite_out, bib_out, reg_vars, arg_list,
                   model_args, dl_vars>>

\* _species.add_demographic_model(_inferred_1_M_13())
AddDemographicModel ==
    /\ pc = "add_model"
    /\ species' = add_demographic_model(species, built.value)
    /\ pc' = "parse_args"
    /\ UNCHANGED <<args, model, qc_complete, samples, contig, engine, ts, log,
                   summary, cite_out, bib_out, exit_msg, reg_vars, arg_list,
                   build_vars, dl_vars>>

\* parser.parse_args(arg_list) for the species' subcommand, one sample count.
ParseArgs ==
    /\ pc = "parse_args"
    /\ \E argv \in ArgLists(species) :
          /\ arg_list' = argv
          /\ args' \in ParsedArgs(species, {<<1>>},
                                  {parse_chromosome(species, argv)},
                                  {ParseFloat("1")})
    /\ pc' = "select_model"
    /\ UNCHANGED <<species, model, qc_complete, samples, contig, engine, ts,
                   log, summary, cite_out, bib_out, exit_msg, reg_vars,
                   build_vars, dl_vars>>

NextBuild ==
    \/ ConstructModel
    \/ AddDemographicModel
    \/ ParseArgs
    \/ Next

SpecBuild == InitBuild /\ [][NextBuild]_vars

---------------------------------------------------------------------------
(* get_citations on its own: the engine's, the model's and the genetic     *)
(* map's citations are drawn from bounded sets, the genome's are those of  *)
(* the generic species.                                                    *)

CitationDois == {None, "doi:stdpopsim", "doi:a"}

\* The citations of one owner: any doi, or none, with the owner's reason.
CitationsFor(reason) ==
    { Citation(d, "Author of " \o d, {reason}) : d \in CitationDois }

\* The call write_bibtex makes for a named model.
InitGetCitations ==
    /\ species = GenericSpecies(GenericModel(<< Population("pop_0") >>, None))
    /\ arg_list \in ArgLists(species)
    /\ args \in {a \in ParsedArgs(species, {<<1>>},
                                  {parse_chromosome(species, arg_list)},
                                  {ParseFloat("1")}) :
                    /\ a.demographic_model # None
                    /\ a.bibtex_file # None
                    /\ ~a.dry_run}
    /\ \E cs \in SeqsOf(CitationsFor("ENGINE"), 0, MaxCites) :
          engine = [get_engine(args.engine) EXCEPT !.citations = cs]
    /\ \E cs \in SeqsOf(CitationsFor("DEM_MODEL"), 0, MaxCites) :
          model = [species.demographic_models[1] EXCEPT !.citations = cs]
    /\ \E gm \in {NoneRec} \cup
                 { [id |-> "map", citations |-> <<c>>] :
                     c \in CitationsFor("GEN_MAP") } :
          contig = [resolve_contig(species, args).value EXCEPT
                        !.genetic_map = gm]
    /\ pc = "get_citations"
    /\ qc_complete = FALSE
    /\ samples = <<>>
    /\ ts = None
    /\ log = <<>>
    /\ summary = NoneRec
    /\ cite_out = <<>>
    /\ bib_out = <<>>
    /\ exit_msg = NoError
    /\ InitCatalogLoaded
    /\ InitNoBuild
    /\ InitNoDownload

CallGetCitations ==
    /\ pc = "get_citations"
    /\ cite_out' = get_citations(engine, model, contig, species)
    /\ pc' = "returned"
    /\ UNCHANGED <<other_vars, species, args, model, qc_complete, samples,
                   contig, engine, ts, log, summary, bib_out, exit_msg>>

NextGetCitations == CallGetCitations

SpecGetCitations == InitGetCitations /\ [][NextGetCitations]_vars

---------------------------------------------------------------------------
(* The registry while the catalog is loaded: BosTau.py registers its       *)
(* species, other modules register theirs, and anyone may look species up. *)

\* What other catalog modules may hand to register_species.
OtherEntries ==
    { [id |-> i, name |-> n, genetic_maps |-> <<>>] :
        i \in {"BosTau", "GenSpe", "HomSap"}, n \in {"name A", "name B"} }

SpeciesIds == {"BosTau", "GenSpe", "HomSap", "DroMel"}

InitRegistry ==
    /\ registered_species = <<>>
    /\ last_call = NoCall
    /\ reg_attempts = <<>>
    /\ subparsers = <<>>
    /\ species = NoneRec
    /\ args = NoneRec
    /\ pc = "catalog"
    /\ model = NoneRec
    /\ qc_complete = FALSE
    /\ samples = <<>>
    /\ contig = NoneRec
    /\ engine = NoneRec
    /\ ts = None
    /\ log = <<>>
    /\ summary = NoneRec
    /\ cite_out = <<>>
    /\ bib_out = <<>>
    /\ exit_msg = NoError
    /\ arg_list = NoneRec
    /\ InitNoBuild
    /\ InitNoDownload

sim_vars == <<species, args, pc, model, qc_complete, samples, contig, engine,
              ts, log, summary, cite_out, bib_out, exit_msg>>

\* A call register_species(sp): the registry it leaves and what it raised.
Register(sp) ==
    /\ pc = "catalog"
    /\ Len(reg_attempts) < MaxRegs
    /\ LET r == register_species(registered_species, sp)
       IN  /\ registered_species' = r.registry
           /\ last_call' = [op |-> "register", arg |-> sp, error |-> r.error,
                            result |-> <<>>]
    /\ reg_attempts' = Append(reg_attempts, sp)
    /\ UNCHANGED <<subparsers, sim_vars,
                   arg_list, build_vars, dl_vars>>

\* BosTau.py: stdpopsim.register_species(_species)
ImportBosTau == Register(SpeciesEntry(_species))

RegisterOther == \E sp \in OtherEntries : Register(sp)

GetSpecies ==
    /\ pc = "catalog"
    /\ \E id \in SpeciesIds :
          LET r == get_species(registered_species, id)
          IN  last_call' = [op |-> "get", arg |-> [id |-> id],
                            error |-> r.error, result |-> r.result]
    /\ UNCHANGED <<registered_species, reg_attempts, subparsers, sim_vars,
                   arg_list, build_vars, dl_vars>>

AllSpecies ==
    /\ pc = "catalog"
    /\ last_call' = [op |-> "all", arg |-> NoneRec, error |-> None,
                     result |-> all_species(registered_species)]
    /\ UNCHANGED <<registered_species, reg_attempts, subparsers, sim_vars,
                   arg_list, build_vars, dl_vars>>

\* species_subcommands going through all_species() backwards.
species_subcommands_reversed(reg) ==
    [i \in 1..Len(all_species(reg)) |->
        all_species(reg)[Len(all_species(reg)) + 1 - i].id]
    \o << "download-genetic-maps" >>

\* The subcommands of the parser: one per species of all_species(), in that
\* order, then download-genetic-maps.
species_subcommands(reg) ==
    [i \in 1..Len(all_species(reg)) |-> all_species(reg)[i].id]
    \o << "download-genetic-maps" >>

\* stdpopsim_cli_parser()
BuildParser ==
    /\ pc = "catalog"
    /\ subparsers' = species_subcommands(registered_species)
    /\ UNCHANGED <<registered_species, last_call, reg_attempts, sim_vars,
                   arg_list, build_vars, dl_vars>>

NextRegistry ==
    \/ ImportBosTau
    \/ RegisterOther
    \/ GetSpecies
    \/ AllSpecies
    \/ BuildParser

SpecRegistry == InitRegistry /\ [][NextRegistry]_vars

---------------------------------------------------------------------------
(* cli.py: run_download_genetic_maps, one action per step.  Here `species` *)
(* is the function's local of that name, a species of the registry.        *)

\* try: return stdpopsim.get_species(species_id)
\* except ValueError as ve: exit(str(ve))
get_species_wrapper(reg, species_id) ==
    LET r == get_species(reg, species_id)
    IN  IF r.error # None
        THEN [exit |-> r.error, value |-> NoneRec]
        ELSE [exit |-> None, value |-> r.result[1]]

\* try: return species.get_genetic_map(genetic_map_id)
\* except ValueError as ve: exit(str(ve))
get_genetic_map_wrapper(sp, genetic_map_id) ==
    LET r == get_genetic_map(sp, genetic_map_id)
    IN  IF r.error # None
        THEN [exit |-> r.error, value |-> NoneRec]
        ELSE [exit |-> None, value |-> r.value]

\* species_names = [args.species], or every registered species' id.
download_species_names(reg, a) ==
    IF a.species = None
    THEN [i \in 1..Len(all_species(reg)) |-> all_species(reg)[i].id]
    ELSE << a.species >>

\* The maps of the species whatever the command line lists.
requested_maps_all_of_species(sp, a) ==
    [i \in 1..Len(sp.genetic_maps) |-> sp.genetic_maps[i].id]

\* genetic_maps: the species' own when the command line lists none.
requested_maps(sp, a) ==
    IF Len(a.genetic_maps) = 0
    THEN [i \in 1..Len(sp.genetic_maps) |-> sp.genetic_maps[i].id]
    ELSE a.genetic_maps

MapIds == <<"map_0", "map_1", "map_2", "map_3">>

\* The species a registry may hold: BosTau, which has no genetic map, one
\* with one to MaxMaps maps, one with one map.
DownloadEntries ==
    { SpeciesEntry(_species) }
    \cup { [id |-> "GenSpe", name |-> "Generic species",
            genetic_maps |-> [i \in 1..n |-> GeneticMap(MapIds[i])]] :
           n \in 1..MaxMaps }
    \cup { [id |-> "HomSap", name |-> "Homo sapiens",
            genetic_maps |-> << GeneticMap(MapIds[1]) >>] }

\* The registries: up to MaxRegs species, ids pairwise distinct.
DownloadRegistries ==
    { reg \in SeqsOf(DownloadEntries, 1, MaxRegs) :
        \A i, j \in 1..Len(reg) : reg[i].id = reg[j].id => i = j }

\* The namespaces of the download-genetic-maps subcommand: both arguments
\* are positional, so map ids can only follow a species.
DownloadArgs ==
    { [species |-> None, genetic_maps |-> <<>>] }
    \cup
    { [species |-> sp, genetic_maps |-> gm] :
        sp \in {"BosTau", "GenSpe", "HomSap", "NoSuch"},
        gm \in SeqsOf({MapIds[i] : i \in 1..MaxMaps} \cup {"no_such_map"},
                      0, MaxMapArgs) }

InitDownload ==
    /\ registered_species \in DownloadRegistries
    /\ reg_attempts = registered_species
    /\ last_call = NoCall
    /\ subparsers = <<>>
    /\ args \in DownloadArgs
    /\ arg_list = NoneRec
    /\ cache \in {{}, {<<"GenSpe", MapIds[1]>>}}
    /\ species_names = <<>>
    /\ genetic_maps = <<>>
    /\ downloads = <<>>
    /\ species = NoneRec
    /\ pc = "download_genetic_maps"
    /\ model = NoneRec
    /\ qc_complete = FALSE
    /\ samples = <<>>
    /\ contig = NoneRec
    /\ engine = NoneRec
    /\ ts = None
    /\ log = <<>>
    /\ summary = NoneRec
    /\ cite_out = <<>>
    /\ bib_out = <<>>
    /\ exit_msg = NoError
    /\ InitNoBuild

\* What no step of run_download_genetic_maps writes.
dl_fixed == <<args, model, qc_complete, samples, contig, engine, ts, log,
              summary, cite_out, bib_out, reg_vars, arg_list, build_vars>>

\* species_names = [args.species] ... all_species()
DownloadStart ==
    /\ pc = "download_genetic_maps"
    /\ species_names' = download_species_names(registered_species, args)
    /\ pc' = "next_species"
    /\ UNCHANGED <<species, genetic_maps, downloads, cache, exit_msg,
                   dl_fixed>>

\* for species_id in species_names: the species lookup and its map list.
NextSpecies ==
    /\ pc = "next_species"
    /\ IF species_names = <<>>
       THEN /\ pc' = "done"
            /\ UNCHANGED <<species, species_names, genetic_maps, exit_msg>>
       ELSE LET r == get_species_wrapper(registered_species,
                                         Head(species_names))
            IN  IF r.exit # None
                THEN /\ pc' = "exited"
                     /\ exit_msg' = [error |-> "SystemExit", text |-> r.exit,
                                     n |-> 0]
                     /\ UNCHANGED <<species, species_names, genetic_maps>>
                ELSE /\ species' = r.value
                     /\ genetic_maps' = requested_maps(r.value, args)
                     /\ species_names' = Tail(species_names)
                     /\ pc' = "next_map"
                     /\ UNCHANGED exit_msg
    /\ UNCHANGED <<downloads, cache, dl_fixed>>

\* for genetic_map_id in genetic_maps: the map lookup.
NextMap ==
    /\ pc = "next_map"
    /\ IF genetic_maps = <<>>
       THEN /\ pc' = "next_species"
            /\ UNCHANGED exit_msg
       ELSE LET r == get_genetic_map_wrapper(species, Head(genetic_maps))
            IN  IF r.exit # None
                THEN /\ pc' = "exited"
                     /\ exit_msg' = [error |-> "SystemExit", text |-> r.exit,
                                     n |-> 0]
                ELSE /\ pc' = "download"
                     /\ UNCHANGED exit_msg
    /\ UNCHANGED <<species, species_names, genetic_maps, downloads, cache,
                   dl_fixed>>

\* genetic_map.download() returning: the map is fetched and stored, cached
\* before or not.
DownloadReturns ==
    /\ pc = "download"
    /\ downloads' = Append(downloads, <<species.id, Head(genetic_maps)>>)
    /\ cache' = cache \cup {<<species.id, Head(genetic_maps)>>}
    /\ genetic_maps' = Tail(genetic_maps)
    /\ pc' = "next_map"
    /\ UNCHANGED <<species, species_names, exit_msg, dl_fixed>>

\* genetic_map.download() raising: the exception leaves the function.
DownloadRaises ==
    /\ pc = "download"
    /\ pc' = "raised"
    /\ exit_msg' = [error |-> "DownloadError", text |-> "", n |-> 0]
    /\ UNCHANGED <<species, species_names, genetic_maps, downloads, cache,
                   dl_fixed>>

NextDownload ==
    \/ DownloadStart
    \/ NextSpecies
    \/ NextMap
    \/ DownloadReturns
    \/ DownloadRaises

SpecDownload == InitDownload /\ [][NextDownload]_vars

---------------------------------------------------------------------------
(* Properties.                                                             *)

RECURSIVE CountAllowSamples(_)
\* How many populations of the sequence allow samples.
CountAllowSamples(pops) ==
    IF pops = <<>> THEN 0
    ELSE (IF Head(pops).allow_samples THEN 1 ELSE 0)
         + CountAllowSamples(Tail(pops))

\* How often the call appears in the log, and where it first does.
Calls(name) == {i \in 1..Len(log) : log[i] = name}
FirstCall(name) == CHOOSE i \in Calls(name) : \A j \in Calls(name) : i <= j

\* run_simulation has passed the sample check without leaving.
PastSampleCheck ==
    pc \notin {"select_model", "check_samples"} /\ "get_samples" \in Range(log)

\* run_simulation has left or passed the sample check.
AfterSampleCheck == pc \notin {"select_model", "check_samples"}

\* C2: when more sample counts are given than the model has populations that
\* allow samples, get_samples fails with TooManySamplePopulationsError and
\* run_simulation exits with "Cannot sample from more than N populations";
\* no contig is resolved, engine.simulate is not called, and no output,
\* citation request or bibtex is written.
C2_TooManySamplesExits ==
    (AfterSampleCheck
        /\ Len(args.samples) > CountAllowSamples(model.populations))
    => /\ pc = "exited"
       /\ exit_msg = [error |-> "SystemExit",
                      text |-> "Cannot sample from more than n populations",
                      n |-> CountAllowSamples(model.populations)]
       /\ get_samples(model, args.samples).error
            = "TooManySamplePopulationsError"
       /\ IsNone(contig)
       /\ log = <<>>
       /\ ts = None
       /\ cite_out = <<>>
       /\ bib_out = <<>>

C2_Witness ==
    /\ pc = "exited"
    /\ Len(args.samples) > CountAllowSamples(model.populations)
    /\ CountAllowSamples(model.populations) > 0

\* The number of samples get_samples gave the k-th sampling population.
SamplesOf(k) ==
    Cardinality({i \in 1..Len(samples) : samples[i].population = k - 1})

\* C3: num_sampling_populations is the number of populations with
\* allow_samples; for counts no longer than that, get_samples succeeds and
\* returns one entry per requested sample, the k-th count for the k-th
\* sampling population and 0 for every omitted trailing count.
C3_SamplesAsRequested ==
    AfterSampleCheck =>
       /\ num_sampling_populations(model)
            = CountAllowSamples(model.populations)
       /\ Len(args.samples) <= CountAllowSamples(model.populations)
          => /\ "get_samples" \in Range(log)
             /\ Len(samples) = SumSeq(args.samples)
             /\ \A i \in 1..Len(samples) :
                    samples[i].population
                        \in 0..(CountAllowSamples(model.populations) - 1)
             /\ \A k \in 1..CountAllowSamples(model.populations) :
                    SamplesOf(k) = IF k <= Len(args.samples)
                                   THEN args.samples[k] ELSE 0

C3_Witness ==
    /\ PastSampleCheck
    /\ Len(args.samples) < CountAllowSamples(model.populations)
    /\ Len(samples) > 1

\* The population a summary row names, as an index into model.populations.
RowPopulation(row) ==
    CHOOSE i \in 1..Len(model.populations) :
        model.populations[i].id = row.pop_name

\* The count the command line gave population i of the model: the k-th
\* count when i is the k-th population that allows samples, 0 otherwise.
CountGivenTo(i) ==
    LET k == CountAllowSamples(SubSeq(model.populations, 1, i))
    IN  IF model.populations[i].allow_samples /\ k <= Len(args.samples)
        THEN args.samples[k]
        ELSE 0

\* C4: counts are associated by position (the i-th count with the i-th
\* population that allows samples, in model order), and every row of the
\* simulation summary gives, next to a population's id and sampling time,
\* the number of samples drawn from that population.
C4_SummaryRowsMatchPopulations ==
    ~IsNone(summary) =>
        \A p \in 1..Len(summary.rows) :
            LET row == summary.rows[p]
                i == RowPopulation(row)
            IN  /\ row.sample_time = model.populations[i].sampling_time
                /\ row.count = CountGivenTo(i)

\* C5: the IonaInferredDemography model of BosTau has one population, which
\* allows samples at time 0; get_samples(10) gives 10 entries with
\* population 0 and time 0, and get_samples(1, 1) fails with
\* TooManySamplePopulationsError.
C5_BosTauSamples ==
    (AfterSampleCheck /\ args.demographic_model = "IonaInferredDemography")
    => /\ species.id = "BosTau"
       /\ model.id = "IonaInferredDemography"
       /\ Len(model.populations) = 1
       /\ model.populations[1].allow_samples
       /\ model.populations[1].sampling_time = 0
       /\ args.samples = <<10>>
          => /\ "get_samples" \in Range(log)
             /\ samples = [i \in 1..10 |-> [population |-> 0, time |-> 0]]
       /\ args.samples = <<1, 1>>
          => /\ pc = "exited"
             /\ samples = <<>>
             /\ get_samples(model, args.samples).error
                    = "TooManySamplePopulationsError"

C5_Witness ==
    /\ pc = "done"
    /\ model.id = "IonaInferredDemography"
    /\ Len(samples) = 10

\* C6: write_output is called exactly when engine.simulate returned a result
\* that is not None: never for a dry run, once otherwise.
C6_OutputIffResult ==
    /\ Cardinality(Calls("write_output")) <= 1
    /\ Calls("write_output") # {}
       => /\ ts # None
          /\ FirstCall("simulate") < FirstCall("write_output")
    /\ pc \in {"citations", "bibtex", "done"}
       => (Calls("write_output") # {} <=> ts # None)

C6_Witness ==
    /\ pc = "done"
    /\ ts # None
    /\ Calls("write_output") # {}

\* The model is a named one that has no QC model.
NamedNotQCed == args.demographic_model # None /\ model.qc_model = None

\* C7: a named model without a QC model gets a warning, issued before
\* engine.simulate, and the run goes on: engine.simulate is called and a
\* result that is not None is written.  A QC-complete model and the default
\* model get no warning.
C7_WarningDoesNotBlock ==
    /\ Calls("warn") # {} => NamedNotQCed
    /\ Cardinality(Calls("warn")) <= 1
    /\ (Calls("warn") # {} /\ log[Len(log)] = "warn") => pc = "simulate"
    /\ (Calls("simulate") # {} /\ NamedNotQCed)
       => /\ Calls("warn") # {}
          /\ FirstCall("warn") < FirstCall("simulate")
    /\ (pc = "done" /\ NamedNotQCed)
       => /\ Calls("simulate") # {}
          /\ ts # None => Calls("write_output") # {}

C7_Witness ==
    /\ pc = "done"
    /\ Calls("warn") # {}
    /\ Calls("write_output") # {}

\* C8: without a named model run_simulation uses one population of constant
\* size species.population_size and growth rate 0, with the species'
\* generation time and its population-size and generation-time citations,
\* and takes it as QC-complete; a named model is used exactly when one was
\* requested.
C8_DefaultModel ==
    pc # "select_model" =>
        IF args.demographic_model = None
        THEN /\ Len(model.populations) = 1
             /\ model.population_configurations
                    = << [initial_size |-> species.population_size,
                          growth_rate |-> 0] >>
             /\ model.demographic_events = <<>>
             /\ model.generation_time = species.generation_time
             /\ Range(species.population_size_citations)
                    \subseteq Range(model.citations)
             /\ Range(species.generation_time_citations)
                    \subseteq Range(model.citations)
             /\ qc_complete
             /\ model \notin Range(species.demographic_models)
        ELSE /\ model \in Range(species.demographic_models)
             /\ model.id = args.demographic_model

C8_Witness ==
    /\ pc = "done"
    /\ args.demographic_model = None
    /\ model.population_configurations[1].initial_size = 62000

\* The length, in base pairs, of the BosTau chromosome of that name.
TableLength(name) ==
    LET i == CHOOSE j \in 1..Len(_chromosome_data) :
                _chromosome_data[j][1] = name
    IN  _chromosome_data[i][2]

\* C9: without a genetic map the contig's length is the chromosome's length
\* times the multiplier, exactly (here in halves of a base pair), for every
\* BosTau chromosome and the multipliers 0.5, 1 and 2; its mutation and
\* recombination rates are the chromosome's 1e-8 whatever the multiplier.
C9_ContigLength ==
    ~IsNone(contig) =>
        /\ args.length_multiplier \in {1, 2, 4}
        /\ contig.recombination_map.length
                = TableLength(args.chromosome) * args.length_multiplier
        /\ contig.recombination_map.mean_recombination_rate = 10
        /\ contig.mutation_rate = 10
        /\ IsNone(contig.genetic_map)

C9_Witness ==
    /\ ~IsNone(contig)
    /\ args.chromosome = "chr4"
    /\ args.length_multiplier = 1
    /\ contig.recombination_map.length = 120000601

\* The list get_citations hands to Citation.merge.
MergeInput ==
    <<_stdpopsim_citation>>
    \o engine.citations
    \o species.genome.assembly_citations
    \o species.genome.mutation_rate_citations
    \o species.genome.recombination_rate_citations
    \o (IF IsNone(contig.genetic_map) THEN <<>>
        ELSE contig.genetic_map.citations)
    \o model.citations

\* The inputs that open a group: every citation without a doi, and the
\* first citation of each doi.
FirstSeen ==
    {i \in 1..Len(MergeInput) :
        \/ MergeInput[i].doi = None
        \/ \A j \in 1..(i - 1) : MergeInput[j].doi # MergeInput[i].doi}

\* The k-th of them, in input order.
NthFirstSeen(k) ==
    CHOOSE i \in FirstSeen : Cardinality({j \in FirstSeen : j < i}) = k - 1

\* C1: get_citations returns one entry per distinct doi of the stdpopsim,
\* engine, genome, genetic-map and model citations, with the union of the
\* reasons of all inputs of that doi, in the order the dois first appear;
\* a citation without a doi is never merged with another.
C1_MergeByDoi ==
    pc = "returned" =>
        /\ Len(cite_out) = Cardinality(FirstSeen)
        /\ \A k \in 1..Len(cite_out) :
              LET c == MergeInput[NthFirstSeen(k)]
              IN  /\ cite_out[k].doi = c.doi
                  /\ cite_out[k].reasons =
                        IF c.doi = None THEN c.reasons
                        ELSE UNION {MergeInput[j].reasons :
                                      j \in {j \in 1..Len(MergeInput) :
                                                MergeInput[j].doi = c.doi}}
        /\ \A k, l \in 1..Len(cite_out) :
              (k # l /\ cite_out[k].doi = cite_out[l].doi)
              => cite_out[k].doi = None

C1_Witness ==
    /\ pc = "returned"
    /\ \E k \in 1..Len(cite_out) : Cardinality(cite_out[k].reasons) = 3
    /\ \E k, l \in 1..Len(cite_out) :
          k # l /\ cite_out[k].doi = None /\ cite_out[l].doi = None
    /\ Len(cite_out) < Len(MergeInput) - 2

\* The ids of a sequence of registry entries.
Ids(reg) == [i \in 1..Len(reg) |-> reg[i].id]

RECURSIVE FirstOfEachId(_)
\* The attempts that met no earlier attempt of the same id, in order.
FirstOfEachId(attempts) ==
    IF attempts = <<>> THEN <<>>
    ELSE LET n == Len(attempts)
             front == SubSeq(attempts, 1, n - 1)
         IN  IF attempts[n].id \in Range(Ids(front))
             THEN FirstOfEachId(front)
             ELSE Append(FirstOfEachId(front), attempts[n])

\* C10: the registry's ids are pairwise distinct; registering a species
\* whose id is present fails with a duplicate-id error and leaves the
\* registry as it was; get of an absent id fails with UnknownSpeciesError;
\* all() returns the registered species in registration order.
C10_RegistryIdsDistinct ==
    /\ \A i, j \in 1..Len(registered_species) :
          registered_species[i].id = registered_species[j].id => i = j
    /\ registered_species = FirstOfEachId(reg_attempts)
    /\ last_call.op = "register"
       => LET n == Len(reg_attempts)
              before == FirstOfEachId(SubSeq(reg_attempts, 1, n - 1))
          IN  /\ last_call.arg = reg_attempts[n]
              /\ IF last_call.arg.id \in Range(Ids(before))
                 THEN /\ last_call.error = "DuplicateIdError"
                      /\ registered_species = before
                 ELSE /\ last_call.error = None
                      /\ registered_species = Append(before, last_call.arg)
    /\ last_call.op = "get"
       => IF last_call.arg.id \in Range(Ids(registered_species))
          THEN /\ last_call.error = None
               /\ Len(last_call.result) = 1
               /\ last_call.result[1] \in Range(registered_species)
               /\ last_call.result[1].id = last_call.arg.id
          ELSE /\ last_call.error = "UnknownSpeciesError"
               /\ last_call.result = <<>>
    /\ last_call.op = "all"
       => last_call.result = FirstOfEachId(reg_attempts)
    /\ subparsers # <<>>
       => LET n == Len(subparsers) - 1
          IN  /\ n <= Len(registered_species)
              /\ SubSeq(subparsers, 1, n)
                    = SubSeq(Ids(registered_species), 1, n)

C10_Witness ==
    /\ last_call.op = "register"
    /\ last_call.error = "DuplicateIdError"
    /\ last_call.arg.id = "BosTau"
    /\ Len(registered_species) = 2
    /\ registered_species[2] = SpeciesEntry(_species)

\* The arguments of DemographicModel name a population the model lacks: there
\* are more initial configurations than populations, or an event's
\* population_id is len(populations) or more.
BadIndex(a) ==
    \/ Len(a.population_configurations) > Len(a.populations)
    \/ \E i \in 1..Len(a.demographic_events) :
          a.demographic_events[i].population_id >= Len(a.populations)

\* C11: constructing a DemographicModel in which an initial configuration or
\* a demographic event references a population index >= len(populations)
\* fails at construction time with InvalidPopulationIndexError; no such
\* model is ever among a species' models or handed to engine.simulate.
C11_InvalidIndexFailsAtConstruction ==
    /\ (pc # "construct_model" /\ BadIndex(model_args.fields))
       => /\ built.error = "InvalidPopulationIndexError"
          /\ IsNone(built.value)
          /\ pc = "raised"
          /\ exit_msg.error = "InvalidPopulationIndexError"
          /\ species.demographic_models = <<>>
          /\ log = <<>>
    /\ built.error = "InvalidPopulationIndexError"
       => BadIndex(model_args.fields)
    /\ \A i \in 1..Len(species.demographic_models) :
          ~BadIndex(species.demographic_models[i])
    /\ "simulate" \in Range(log) => ~BadIndex(model)

C11_Witness ==
    /\ pc = "raised"
    /\ built.error = "InvalidPopulationIndexError"
    /\ Len(model_args.fields.populations) = 2
    /\ Len(model_args.fields.population_configurations) = 2
    /\ Len(model_args.fields.demographic_events) = 2
    /\ model_args.fields.demographic_events[1].population_id = 1
    /\ model_args.fields.demographic_events[2].population_id = 2

\* C12: the chromosome given to get_contig defaults to the species' first
\* chromosome only if the genome has exactly one chromosome; for a genome of
\* more than one chromosome a request without a chromosome does not pick
\* one: no chromosome is passed on and no contig is resolved.
C12_ChromosomeRequired ==
    arg_list.chromosome = None =>
        IF Len(species.genome.chromosomes) = 1
        THEN ~IsNone(contig) => contig.id = species.genome.chromosomes[1].id
        ELSE /\ args.chromosome = None
             /\ IsNone(contig)

\* What a failed species, model or genetic-map lookup raises.
LookupErrors ==
    {"UnknownSpeciesError", "UnknownModelError", "UnknownGeneticMapError"}

\* C13: a failed species, model or genetic-map lookup ends the invocation:
\* it exits at once with the lookup's message, nothing runs afterwards (no
\* retry, no further download, no engine), and there is no partial success:
\* when run_download_genetic_maps fails on an unknown id, no map has been
\* downloaded.
C13_LookupFailureTerminal ==
    exit_msg.text \in LookupErrors =>
        /\ pc = "exited"
        /\ exit_msg.error = "SystemExit"
        /\ ~ENABLED NextDownload
        /\ "simulate" \notin Range(log)
        /\ downloads = <<>>

\* The registered species of that id, as a sequence of at most one.
Registered(id) ==
    SelectSeq(registered_species, LAMBDA e : e.id = id)

\* The maps the command line asks of the species of that id: the listed
\* ones, else all it owns; none of a species that is not registered.
MapsWanted(id) ==
    IF Registered(id) = <<>> THEN <<>>
    ELSE IF args.genetic_maps # <<>> THEN args.genetic_maps
    ELSE [i \in 1..Len(Registered(id)[1].genetic_maps) |->
             Registered(id)[1].genetic_maps[i].id]

RECURSIVE DownloadsOf(_)
\* The downloads asked for, species by species, map by map.
DownloadsOf(ids) ==
    IF ids = <<>> THEN <<>>
    ELSE [i \in 1..Len(MapsWanted(Head(ids))) |->
             <<Head(ids), MapsWanted(Head(ids))[i]>>]
         \o DownloadsOf(Tail(ids))

ExpectedDownloads ==
    DownloadsOf(IF args.species = None THEN Ids(registered_species)
                ELSE << args.species >>)

\* C17: run_download_genetic_maps downloads the requested maps, once per
\* request and in order: for every registered species in registry order
\* when no species is given, for the one given otherwise; all maps of the
\* species when none is listed, the listed ones otherwise; cached or not;
\* and nothing for a species that has no genetic maps.
C17_DownloadsAsRequested ==
    /\ Len(downloads) <= Len(ExpectedDownloads)
    /\ downloads = SubSeq(ExpectedDownloads, 1, Len(downloads))
    /\ pc = "done" => downloads = ExpectedDownloads
    /\ (pc = "done" /\ \A i, j \in 1..Len(args.genetic_maps) :
                          args.genetic_maps[i] = args.genetic_maps[j] => i = j)
       => \A i, j \in 1..Len(downloads) : downloads[i] = downloads[j] => i = j
    /\ \A i \in 1..Len(downloads) :
          /\ Registered(downloads[i][1]) # <<>>
          /\ \E k \in 1..Len(Registered(downloads[i][1])[1].genetic_maps) :
                Registered(downloads[i][1])[1].genetic_maps[k].id
                    = downloads[i][2]
          /\ downloads[i] \in cache

C17_Witness ==
    /\ pc = "done"
    /\ args.species = None
    /\ Len(registered_species) = 3
    /\ registered_species[1].id = "HomSap"
    /\ registered_species[2].id = "BosTau"
    /\ downloads = << <<"HomSap", "map_0">>, <<"GenSpe", "map_0">>,
                      <<"GenSpe", "map_1">> >>

\* C14: the BosTau genome has exactly 30 chromosomes with pairwise distinct
\* ids and positive lengths; its IonaInferredDemography model has exactly
\* one population, of initial size 90 and growth rate 0.0166, and exactly 14
\* demographic events, each setting a growth rate for population 0 (an
\* index below len(populations)) at a non-negative time, in strictly
\* increasing order of time.  The model run_simulation uses when that model
\* is named, and the chromosome it resolves, are these.
C14_BosTauCatalogEntry ==
    LET chroms == species.genome.chromosomes
        m == species.demographic_models[1]
        events == m.demographic_events
    IN  /\ species.id = "BosTau"
        /\ Len(chroms) = 30
        /\ \A i, j \in 1..Len(chroms) : chroms[i].id = chroms[j].id => i = j
        /\ \A i \in 1..Len(chroms) : chroms[i].length \in Nat \ {0}
        /\ Len(species.demographic_models) = 1
        /\ m.id = "IonaInferredDemography"
        /\ Len(m.populations) = 1
        /\ m.population_configurations
              = << [initial_size |-> 90, growth_rate |-> 16600000] >>
        /\ Len(events) = 14
        /\ \A i \in 1..Len(events) :
              /\ events[i].growth_rate \in Int
              /\ events[i].population_id = 0
              /\ events[i].population_id < Len(m.populations)
              /\ events[i].time >= 0
        /\ \A i, j \in 1..Len(events) :
              i < j => events[i].time < events[j].time
        /\ (pc # "select_model" /\ args.demographic_model # None) => model = m
        /\ ~IsNone(contig) => \E i \in 1..Len(chroms) : contig.id = chroms[i].id

C14_Witness ==
    /\ pc = "done"
    /\ model.id = "IonaInferredDemography"
    /\ Len(model.demographic_events) = 14
    /\ model.demographic_events[14].time = 933155
    /\ contig.id = "chrX"

\* C15: the citation request is written exactly when the model is
\* QC-complete, that is the default model or a named model whose qc_model is
\* not None, and is skipped otherwise; the bibtex file, when one was given,
\* is written and closed whatever the QC status and on a dry run too.
C15_CitationRequestIffQC ==
    /\ pc # "select_model"
       => (qc_complete <=> (args.demographic_model = None
                            \/ model.qc_model # None))
    /\ Cardinality(Calls("write_citations")) <= 1
    /\ Cardinality(Calls("write_bibtex")) <= 1
    /\ Calls("write_citations") # {} => qc_complete
    /\ pc \in {"bibtex", "done"}
       => /\ Calls("write_citations") # {} <=> qc_complete
          /\ cite_out # <<>> <=> qc_complete
    /\ pc = "done"
       => /\ Calls("write_bibtex") # {} <=> args.bibtex_file # None
          /\ bib_out # <<>> <=> args.bibtex_file # None
          /\ args.bibtex_file # None
             => /\ Len(log) >= 2
                /\ SubSeq(log, Len(log) - 1, Len(log))
                      = <<"write_bibtex", "bibtex_file.close">>
    /\ Calls("bibtex_file.close") # {} => Calls("write_bibtex") # {}

C15_Witness ==
    /\ pc = "done"
    /\ ~qc_complete
    /\ args.dry_run
    /\ Calls("write_citations") = {}
    /\ cite_out = <<>>
    /\ bib_out # <<>>
    /\ log[Len(log)] = "bibtex_file.close"

\* The calls of run_simulation in the order of its statements.
StepOrder ==
    <<"get_samples", "get_contig", "get_engine", "write_simulation_summary",
      "warn", "simulate", "write_output", "write_citations", "write_bibtex",
      "bibtex_file.close">>

Rank(name) == CHOOSE i \in 1..Len(StepOrder) : StepOrder[i] = name

\* C16: the steps of run_simulation happen in one order, each at most once:
\* get_samples, get_contig, get_engine, the simulation summary, the warning
\* (only for a model that is not QC-complete), engine.simulate, the output,
\* the citation request, the bibtex file; nothing before engine.simulate is
\* skipped and nothing after it happens without it.  An error raised by
\* engine.simulate leaves run_simulation as it is: simulate is not called
\* again and no output, citation request or bibtex is written.
C16_StepOrder ==
    /\ \A i \in 1..Len(log) : log[i] \in Range(StepOrder)
    /\ \A i, j \in 1..Len(log) : i < j => Rank(log[i]) < Rank(log[j])
    /\ Cardinality(Calls("simulate")) <= 1
    /\ Calls("warn") # {} => ~qc_complete
    /\ Calls("simulate") # {}
       => /\ \A k \in 1..4 : Calls(StepOrder[k]) # {}
          /\ ~qc_complete => Calls("warn") # {}
    /\ \A k \in 7..Len(StepOrder) :
          Calls(StepOrder[k]) # {} => Calls("simulate") # {}
    /\ exit_msg.error = "EngineError"
       => /\ pc = "raised"
          /\ log[Len(log)] = "simulate"
          /\ ts = None
          /\ cite_out = <<>>
          /\ bib_out = <<>>
          /\ ~ENABLED Next

C16_Witness ==
    /\ pc = "raised"
    /\ exit_msg.error = "EngineError"
    /\ log = <<"get_samples", "get_contig", "get_engine",
               "write_simulation_summary", "warn", "simulate">>
    /\ args.bibtex_file # None
    /\ ~args.dry_run

====
